---- MODULE Spec2Model ----
(***************************************************************************)
(* MENACE label generator (menace_labels.py / menace_labels_latex.py):     *)
(* enumeration of the tic-tac-toe boards reachable by legal play, the      *)
(* filter down to X-to-move decision positions, and their grouping into    *)
(* classes under the 8 board symmetries.                                   *)
(*                                                                         *)
(* A board is the 9-character string of the source, modelled as a tuple of *)
(* 9 one-character strings; Python index i is index i+1 here.              *)
(***************************************************************************)
EXTENDS Integers, Sequences, FiniteSets, TLC

VARIABLES
    visited,                \* reachable_positions: the set `visited`
    stack,                  \* reachable_positions: the list `stack` of (board, player)
    pc,                     \* position in build_menace_boxes and its callers
    positions,              \* build_menace_boxes: the set `positions`
    canonical_to_members,   \* build_menace_boxes: the dict canonical -> set(members)
    dist,                   \* orbit_stats: the returned dict size -> count
    pos_by_depth,           \* per_depth_stats: Counter of positions per X count
    canon_by_depth,         \* per_depth_stats: Counter of classes per X count
    depth_buckets,          \* __main__: the sorted keys of each depth 0..4
    board,                  \* argument of a direct call of a pure function
    call,                   \* which pure function was called last
    ret                     \* what it returned

vars == <<visited, stack, pc, positions, canonical_to_members, dist,
          pos_by_depth, canon_by_depth, depth_buckets, board, call, ret>>

progVars == <<visited, stack, pc, positions, canonical_to_members, dist,
              pos_by_depth, canon_by_depth, depth_buckets>>

pureVars == <<board, call, ret>>

---------------------------------------------------------------------------
(* Boards *)

NCells == 9

Cells == 1..NCells

Marks == {" ", "X", "O"}

Boards == [Cells -> Marks]

start == [i \in Cells |-> " "]

None == "None"

\* str.count(ch)
Count(b, ch) == Cardinality({i \in DOMAIN b : b[i] = ch})

\* ord(ch) for the three characters of a board: ' ' = 32, 'O' = 79, 'X' = 88
Ord(ch) == CASE ch = " " -> 32
             [] ch = "O" -> 79
             [] ch = "X" -> 88

\* Python's str.__lt__ on two strings of the same length
StrLess(a, b) ==
    \E i \in DOMAIN a :
        /\ \A j \in 1..(i - 1) : a[j] = b[j]
        /\ Ord(a[i]) < Ord(b[i])

\* min() mistaken for max()
MinAsMax(S) == CHOOSE m \in S : \A o \in S : o = m \/ StrLess(o, m)

\* Python's min() over a non-empty collection of strings
Min(S) == CHOOSE m \in S : \A o \in S : o = m \/ StrLess(m, o)

---------------------------------------------------------------------------
(* all_symmetries, canonical *)

\* rotate with its last index mistyped
rotateTypo(b) == << b[7], b[4], b[1],
                    b[8], b[5], b[2],
                    b[9], b[6], b[6] >>

rotate(b) == << b[7], b[4], b[1],
                b[8], b[5], b[2],
                b[9], b[6], b[3] >>

\* reflect with its last row left unreversed
reflectTypo(b) == << b[3], b[2], b[1],
                     b[6], b[5], b[4],
                     b[7], b[8], b[9] >>

reflect(b) == << b[3], b[2], b[1],
                 b[6], b[5], b[4],
                 b[9], b[8], b[7] >>

\* the list `boards` after the for loop: b, reflect(b) for four successive rotations
SymmetryList(b) ==
    LET r1 == rotate(b)
        r2 == rotate(r1)
        r3 == rotate(r2)
    IN  << b, reflect(b), r1, reflect(r1), r2, reflect(r2), r3, reflect(r3) >>

\* the uniq/seen loop: keep the first occurrence of every board, in order
RECURSIVE Uniq(_, _)
Uniq(list, k) ==
    IF k = 0 THEN << >>
    ELSE LET prev == Uniq(list, k - 1)
         IN  IF \E j \in 1..(k - 1) : list[j] = list[k]
             THEN prev
             ELSE Append(prev, list[k])

all_symmetries(b) == LET l == SymmetryList(b) IN Uniq(l, Len(l))

Range(s) == {s[i] : i \in DOMAIN s}

canonical(b) == Min(Range(all_symmetries(b)))

---------------------------------------------------------------------------
(* winner *)

\* the table with the second diagonal mistyped
linesTypo == << <<1, 2, 3>>, <<4, 5, 6>>, <<7, 8, 9>>,
                <<1, 4, 7>>, <<2, 5, 8>>, <<3, 6, 9>>,
                <<1, 5, 9>>, <<3, 5, 8>> >>

lines == << <<1, 2, 3>>, <<4, 5, 6>>, <<7, 8, 9>>,
            <<1, 4, 7>>, <<2, 5, 8>>, <<3, 6, 9>>,
            <<1, 5, 9>>, <<3, 5, 7>> >>

LineWon(b, l) == b[l[1]] # " " /\ b[l[1]] = b[l[2]] /\ b[l[2]] = b[l[3]]

\* the for loop over `lines` from line k on: the first completed line decides
RECURSIVE winnerFrom(_, _)
winnerFrom(b, k) ==
    IF k > Len(lines) THEN None
    ELSE IF LineWon(b, lines[k]) THEN b[lines[k][1]]
    ELSE winnerFrom(b, k + 1)

winner(b) == winnerFrom(b, 1)

---------------------------------------------------------------------------
(* reachable_positions *)

\* the loop body without the winner test
IsTerminalFullOnly(b) == Count(b, " ") = 0

\* the two `continue` tests of the loop body
IsTerminal(b) == winner(b) # None \/ Count(b, " ") = 0

\* next_player without the alternation
NextPlayerSame(player) == player

NextPlayer(player) == IF player = "X" THEN "O" ELSE "X"

\* nb of the inner loop for cell i
Child(b, i, player) == [b EXCEPT ![i] = player]

\* the inner loop without its `nb not in visited` test
PushCellsUnchecked(b, player, seen) ==
    SelectSeq([i \in Cells |-> i], LAMBDA i : b[i] = " ")

\* the cells for which the inner loop adds nb to visited and pushes it, in loop order
PushCells(b, player, seen) ==
    SelectSeq([i \in Cells |-> i],
              LAMBDA i : b[i] = " " /\ Child(b, i, player) \notin seen)

\* the entries the inner loop appends to the stack, in order
Pushed(b, player, seen) ==
    LET cs == PushCells(b, player, seen)
    IN  [k \in 1..Len(cs) |-> <<Child(b, cs[k], player), NextPlayer(player)>>]

\* visited and stack after the inner loop has added and pushed `new`
Expand(seen, rest, new) ==
    << seen \cup {new[k][1] : k \in DOMAIN new}, rest \o new >>

\* one iteration of `while stack`, on st = <<visited, stack>> with a non-empty stack
LoopBody(st) ==
    LET top == st[2][Len(st[2])]
        rest == SubSeq(st[2], 1, Len(st[2]) - 1)
    IN  IF IsTerminal(top[1])
        THEN << st[1], rest >>
        ELSE Expand(st[1], rest, Pushed(top[1], top[2], st[1]))

Top == stack[Len(stack)]

PopTerminal ==
    /\ pc = "loop"
    /\ stack # << >>
    /\ IsTerminal(Top[1])
    /\ \E st \in {LoopBody(<<visited, stack>>)} :
           /\ visited' = st[1]
           /\ stack' = st[2]
    /\ UNCHANGED <<pc, positions, canonical_to_members, dist,
                   pos_by_depth, canon_by_depth, depth_buckets>>
    /\ UNCHANGED pureVars

PopExpand ==
    /\ pc = "loop"
    /\ stack # << >>
    /\ ~IsTerminal(Top[1])
    /\ \E st \in {LoopBody(<<visited, stack>>)} :
           /\ visited' = st[1]
           /\ stack' = st[2]
    /\ UNCHANGED <<pc, positions, canonical_to_members, dist,
                   pos_by_depth, canon_by_depth, depth_buckets>>
    /\ UNCHANGED pureVars

LoopExit ==
    /\ pc = "loop"
    /\ stack = << >>
    /\ pc' = "returned"
    /\ UNCHANGED <<visited, stack, positions, canonical_to_members, dist,
                   pos_by_depth, canon_by_depth, depth_buckets>>
    /\ UNCHANGED pureVars

\* an upper limit on the iterations of `while stack` taken in one step
LoopFuel == 8192

\* the loop body applied until the stack is empty, at most n times
RECURSIVE Iterate(_, _)
Iterate(n, st) ==
    IF st[2] = << >> \/ n = 0 THEN st
    ELSE IF n = 1 THEN LoopBody(st)
    ELSE Iterate(n - (n \div 2), Iterate(n \div 2, st))

\* reachable_positions() taken as one step: the whole loop, from its first
\* iteration to the return of visited
CallReachablePositions ==
    /\ pc = "loop"
    /\ visited = {start}
    /\ stack = << <<start, "X">> >>
    /\ \E st \in {Iterate(LoopFuel, <<visited, stack>>)} :
           /\ st[2] = << >>
           /\ visited' = st[1]
           /\ stack' = st[2]
    /\ pc' = "returned"
    /\ UNCHANGED <<positions, canonical_to_members, dist,
                   pos_by_depth, canon_by_depth, depth_buckets>>
    /\ UNCHANGED pureVars

---------------------------------------------------------------------------
(* build_menace_boxes *)

\* the filter with >= for == in the turn test
IsDecisionAtLeast(b) ==
    /\ Count(b, "X") >= Count(b, "O")
    /\ winner(b) = None
    /\ Count(b, " ") > 1

\* the filter with `> 0` for `> 1` in the test of the empty cells
IsDecisionAnyEmpty(b) ==
    /\ Count(b, "X") = Count(b, "O")
    /\ winner(b) = None
    /\ Count(b, " ") > 0

IsDecision(b) ==
    /\ Count(b, "X") = Count(b, "O")
    /\ winner(b) = None
    /\ Count(b, " ") > 1

FilterPositions ==
    /\ pc = "returned"
    /\ positions' = {b \in visited : IsDecision(b)}
    /\ pc' = "filtered"
    /\ UNCHANGED <<visited, stack, canonical_to_members, dist,
                   pos_by_depth, canon_by_depth, depth_buckets>>
    /\ UNCHANGED pureVars

\* the key taken as the first board of the orbit, not its minimum
ClassKeyFirst(pos) == all_symmetries(pos)[1]

\* can = min(orbit) of the grouping loop
ClassKey(pos) == Min(Range(all_symmetries(pos)))

\* canonical_to_members[can] = {pos} for canonical_to_members[can].add(pos)
GroupByOverwrite(adds) ==
    [k \in {a[1] : a \in adds} |-> {(CHOOSE a \in adds : a[1] = k)[2]}]

\* the dict built by the loop from its (can, pos) pairs: pos is added under can
GroupBy(adds) ==
    [k \in {a[1] : a \in adds} |-> {a[2] : a \in {c \in adds : c[1] = k}}]

Grouping(ps) == GroupBy({<<ClassKey(p), p>> : p \in ps})

GroupPositions ==
    /\ pc = "filtered"
    /\ canonical_to_members' = Grouping(positions)
    /\ pc' = "built"
    /\ UNCHANGED <<visited, stack, positions, dist,
                   pos_by_depth, canon_by_depth, depth_buckets>>
    /\ UNCHANGED pureVars

---------------------------------------------------------------------------
(* orbit_stats, per_depth_stats *)

\* Counter of len(members) over the classes, as the returned dict
orbit_stats(ctm) ==
    [n \in {Cardinality(ctm[k]) : k \in DOMAIN ctm} |->
        Cardinality({k \in DOMAIN ctm : Cardinality(ctm[k]) = n})]

\* range(0,5)
MaxDepth == 4

Depths == 0..MaxDepth

\* a Counter incremented once per (element, d) pair, read at the depths 0..4
\* (a missing key reads 0)
CounterOf(incs) == [d \in Depths |-> Cardinality({e \in incs : e[2] = d})]

\* pos_by_depth: x = p.count('X') for every position
PosByDepth(ps) == CounterOf({<<p, Count(p, "X")>> : p \in ps})

\* d = any_member.count('X') with any_member = next(iter(members)): the member a
\* set iteration yields first is unspecified, so every member's count is possible
MemberDepths(members) == {Count(m, "X") : m \in members}

\* the classes whose members do not all have the same count
MixedClasses(ctm) == {k \in DOMAIN ctm : Cardinality(MemberDepths(ctm[k])) > 1}

\* every set of (class key, d) pairs that the choices of any_member can give
DepthChoicesOn(ctm, mixed) ==
    { { <<k, IF k \in mixed THEN y[k]
             ELSE CHOOSE d \in MemberDepths(ctm[k]) : TRUE>> : k \in DOMAIN ctm } :
      y \in { z \in [mixed -> UNION {MemberDepths(ctm[k]) : k \in mixed}] :
              \A k \in mixed : z[k] \in MemberDepths(ctm[k]) } }

DepthChoices(ctm) == DepthChoicesOn(ctm, MixedClasses(ctm))

CallOrbitStats ==
    /\ pc = "built"
    /\ dist' = orbit_stats(canonical_to_members)
    /\ pc' = "orbit_stats"
    /\ UNCHANGED <<visited, stack, positions, canonical_to_members,
                   pos_by_depth, canon_by_depth, depth_buckets>>
    /\ UNCHANGED pureVars

CallPerDepthStats ==
    /\ pc = "built"
    /\ pos_by_depth' = PosByDepth(positions)
    /\ \E x \in DepthChoices(canonical_to_members) :
           canon_by_depth' = CounterOf(x)
    /\ pc' = "per_depth_stats"
    /\ UNCHANGED <<visited, stack, positions, canonical_to_members, dist,
                   depth_buckets>>
    /\ UNCHANGED pureVars

---------------------------------------------------------------------------
(* __main__: the label listing *)

\* each element of S with its place in sorted(S)
RankIn(S) == {<<k, Cardinality({o \in S : StrLess(o, k)}) + 1>> : k \in S}

\* the list that holds every ranked element at its place
SeqOfRanks(ranked) ==
    [i \in 1..Cardinality(ranked) |-> (CHOOSE r \in ranked : r[2] = i)[1]]

\* all_sorted = sorted(canonical_to_members.keys())
Sorted(S) == SeqOfRanks(RankIn(S))

\* depth_buckets: for d in range(0,5) the keys of all_sorted with can_to_depth d,
\* can_to_depth given as its set of (key, depth) pairs
DepthBuckets(all_sorted, can_to_depth) ==
    [d \in Depths |-> SelectSeq(all_sorted, LAMBDA can : <<can, d>> \in can_to_depth)]

\* can_to_depth takes next(iter(members)).count('X') as per_depth_stats does
CallMain ==
    /\ pc = "built"
    /\ \E can_to_depth \in DepthChoices(canonical_to_members) :
           depth_buckets' = DepthBuckets(Sorted(DOMAIN canonical_to_members),
                                         can_to_depth)
    /\ pc' = "labels"
    /\ UNCHANGED <<visited, stack, positions, canonical_to_members, dist,
                   pos_by_depth, canon_by_depth>>
    /\ UNCHANGED pureVars

---------------------------------------------------------------------------
(* The program: one run of build_menace_boxes and the statistics on it *)

ProgInit ==
    /\ visited = {start}
    /\ stack = << <<start, "X">> >>
    /\ pc = "loop"
    /\ positions = {}
    /\ canonical_to_members = << >>
    /\ dist = << >>
    /\ pos_by_depth = << >>
    /\ canon_by_depth = << >>
    /\ depth_buckets = << >>

PureIdle ==
    /\ board = start
    /\ call = None
    /\ ret = None

Init == ProgInit /\ PureIdle

Next ==
    \/ PopTerminal
    \/ PopExpand
    \/ LoopExit
    \/ CallReachablePositions
    \/ FilterPositions
    \/ GroupPositions
    \/ CallOrbitStats
    \/ CallPerDepthStats
    \/ CallMain

Spec == Init /\ [][Next]_vars

\* the steps of reachable_positions()
TraversalNext ==
    \/ PopTerminal
    \/ PopExpand
    \/ LoopExit
    \/ CallReachablePositions

\* reachable_positions() is plain sequential code: once called, it keeps taking
\* steps until it returns
FairSpec == Spec /\ WF_vars(TraversalNext)

---------------------------------------------------------------------------
(* The pure functions called directly on any 9-cell board *)

CallWinner ==
    /\ call = None
    /\ call' = "winner"
    /\ ret' = winner(board)
    /\ UNCHANGED board
    /\ UNCHANGED progVars

CallAllSymmetries ==
    /\ call = None
    /\ call' = "all_symmetries"
    /\ ret' = all_symmetries(board)
    /\ UNCHANGED board
    /\ UNCHANGED progVars

CallCanonical ==
    /\ call = None
    /\ call' = "canonical"
    /\ ret' = canonical(board)
    /\ UNCHANGED board
    /\ UNCHANGED progVars

ProgIdle ==
    /\ visited = {}
    /\ stack = << >>
    /\ pc = "idle"
    /\ positions = {}
    /\ canonical_to_members = << >>
    /\ dist = << >>
    /\ pos_by_depth = << >>
    /\ canon_by_depth = << >>
    /\ depth_buckets = << >>

PureInit ==
    /\ ProgIdle
    /\ board \in Boards
    /\ call = None
    /\ ret = None

PureNext ==
    \/ CallWinner
    \/ CallAllSymmetries
    \/ CallCanonical

PureSpec == PureInit /\ [][PureNext]_vars

---------------------------------------------------------------------------
(* Properties *)

\* the run has left the worklist loop: `visited` is the returned set
Returned == pc \in {"returned", "filtered", "built", "orbit_stats", "per_depth_stats",
                   "labels"}

\* build_menace_boxes has returned (canonical_to_members, positions)
Built == pc = "built"

LineSets == { {1, 2, 3}, {4, 5, 6}, {7, 8, 9},
              {1, 4, 7}, {2, 5, 8}, {3, 6, 9},
              {1, 5, 9}, {3, 5, 7} }

HasLine(b, m) == \E l \in LineSets : \A i \in l : b[i] = m

GameOver(b) == HasLine(b, "X") \/ HasLine(b, "O") \/ \A i \in Cells : b[i] # " "

Moves(b, m) == { [b EXCEPT ![i] = m] : i \in {j \in Cells : b[j] = " "} }

\* the boards after exactly n legal moves, X moving first, none from a finished board
RECURSIVE Ply(_)
Ply(n) ==
    IF n = 0 THEN {start}
    ELSE UNION { Moves(b, IF n % 2 = 1 THEN "X" ELSE "O") :
                 b \in {c \in Ply(n - 1) : ~GameOver(c)} }

GameTree == UNION { Ply(n) : n \in 0..NCells }

\* C1: the set returned by reachable_positions() is exactly the set of boards
\* obtainable from the empty board by alternating legal moves, X first, none made
\* from a board with a winner or a full board (the game tree generated ply by
\* ply), and it holds exactly 5478 boards.
C1_ReachableIsGameTree ==
    Returned => visited = GameTree /\ Cardinality(visited) = 5478

C1_Witness ==
    /\ pc = "returned"
    /\ stack = << >>
    /\ \E b \in visited : HasLine(b, "O")
    /\ \E b \in visited : ~HasLine(b, "X") /\ \A i \in Cells : b[i] # " "

\* the member sets of the classes
MemberSets == {canonical_to_members[k] : k \in DOMAIN canonical_to_members}

IsPartition(sets, whole) ==
    /\ \A m \in sets : m # {}
    /\ \A p \in whole : Cardinality({m \in sets : p \in m}) = 1
    /\ \A m1 \in sets : \A m2 \in sets : m1 # m2 => m1 \cap m2 = {}
    /\ UNION sets = whole

\* C2: in the pair returned by build_menace_boxes() the member sets partition
\* positions: no member set is empty, every decision position is a member of
\* exactly one class, no two member sets overlap (two keys never hold the same
\* set either), and their union is positions.
C2_ClassesPartitionPositions ==
    Built =>
        /\ Cardinality(MemberSets) = Cardinality(DOMAIN canonical_to_members)
        /\ IsPartition(MemberSets, positions)

C2_Witness ==
    /\ Built
    /\ Cardinality(positions) > Cardinality(DOMAIN canonical_to_members)
    /\ \E k1, k2 \in DOMAIN canonical_to_members :
           /\ Cardinality(canonical_to_members[k1]) = 8
           /\ Cardinality(canonical_to_members[k2]) = 1

\* the decision positions stored under a key that p is stored under
StoredWith(sets, p) == UNION {m \in sets : p \in m}

SameKeyIffSymmetric(sets, ps) ==
    \A p \in ps : StoredWith(sets, p) = {q \in Range(all_symmetries(p)) : q \in ps}

\* C3: for all pairs (p, q) of decision positions returned by build_menace_boxes(),
\* p and q are stored under the same canonical key if and only if q is one of the
\* boards returned by all_symmetries(p): for every p, the positions q that share
\* a key with p are the positions q among the symmetry images of p.
C3_SameClassIffSymmetric ==
    Built => SameKeyIffSymmetric(MemberSets, positions)

C3_Witness ==
    /\ Built
    /\ \E m \in MemberSets :
           \E p, q \in m : p # q /\ Count(p, "X") = 2 /\ q \in Range(all_symmetries(p))
    /\ \E m1, m2 \in MemberSets :
           /\ m1 # m2
           /\ \E p \in m1 : \E q \in m2 :
                  /\ Count(p, "X") = 2
                  /\ Count(q, "X") = 2
                  /\ q \notin Range(all_symmetries(p))

\* canonical_to_members and positions hold what build_menace_boxes() returned
HasBoxes == pc \in {"built", "orbit_stats", "per_depth_stats", "labels"}

OrbitSizes == {1, 2, 4, 8}

\* C10: the decision positions returned by build_menace_boxes() are closed under
\* the 8 board symmetries; hence every class stores as many members as the full
\* orbit of its key has boards (1, 2, 4 or 8, which are then the only sizes
\* orbit_stats reports) and every class key is a member of its own class.
C10_PositionsClosedUnderSymmetry ==
    HasBoxes =>
        /\ \A p \in positions : \A q \in Range(all_symmetries(p)) : q \in positions
        /\ \A k \in DOMAIN canonical_to_members :
               /\ Cardinality(canonical_to_members[k]) = Len(all_symmetries(k))
               /\ Cardinality(canonical_to_members[k]) \in OrbitSizes
               /\ k \in canonical_to_members[k]
        /\ pc = "orbit_stats" => DOMAIN dist \subseteq OrbitSizes

C10_Witness ==
    /\ pc = "orbit_stats"
    /\ DOMAIN dist = OrbitSizes
    /\ \E k \in DOMAIN canonical_to_members :
           /\ Cardinality(canonical_to_members[k]) = 4
           /\ canonical_to_members[k] = Range(all_symmetries(k))

XTopLeft == [start EXCEPT ![1] = "X"]

XBottomRight == [start EXCEPT ![NCells] = "X"]

Corners == {1, 3, 7, 9}

\* C6 as stated: the board "X        " has canonical form "X        " and belongs
\* to a canonical class with that key.
C6_TopLeftIsCanonical ==
    HasBoxes =>
        /\ canonical(XTopLeft) = XTopLeft
        /\ XTopLeft \in DOMAIN canonical_to_members
        /\ XTopLeft \in canonical_to_members[XTopLeft]

\* C6, amended: the board "X        " has canonical form "        X": its symmetry
\* images are the four single-corner boards and, ' ' sorting before 'X', the
\* bottom-right placement is the minimal one; the board is reachable but is no
\* decision position (O is to move), so it is no class key and no class member.
C6_BottomRightIsCanonical ==
    HasBoxes =>
        /\ Range(all_symmetries(XTopLeft)) = {[start EXCEPT ![i] = "X"] : i \in Corners}
        /\ canonical(XTopLeft) = XBottomRight
        /\ XTopLeft \in visited
        /\ XTopLeft \notin positions
        /\ XTopLeft \notin DOMAIN canonical_to_members
        /\ \A k \in DOMAIN canonical_to_members : XTopLeft \notin canonical_to_members[k]

C6_Witness ==
    /\ pc = "built"
    /\ XTopLeft \in visited
    /\ XBottomRight \in visited
    /\ canonical(XBottomRight) = XBottomRight

\* the boards after X's first move
FirstMoves == {b \in visited : Count(b, "X") = 1 /\ Count(b, "O") = 0}

\* C7 as stated: the classes at depth 1 number exactly 3.
C7_ThreeClassesAtDepthOne ==
    pc = "per_depth_stats" => canon_by_depth[1] = 3

\* C7, amended: the classes at depth 1 (members with exactly one X, and so one O)
\* number exactly 12, over 72 positions. The 9 first-move boards (corner, edge,
\* center) do collapse into exactly 3 canonical forms, but with one X and no O
\* they are no decision positions and belong to no class.
C7_TwelveClassesAtDepthOne ==
    pc = "per_depth_stats" =>
        /\ canon_by_depth[1] = 12
        /\ pos_by_depth[1] = 72
        /\ Cardinality(FirstMoves) = 9
        /\ Cardinality({canonical(b) : b \in FirstMoves}) = 3
        /\ \A b \in FirstMoves : b \notin positions
        /\ \A k \in DOMAIN canonical_to_members :
               \A m \in canonical_to_members[k] :
                   Count(m, "X") = 1 => Count(m, "O") = 1

C7_Witness ==
    /\ pc = "per_depth_stats"
    /\ canon_by_depth[1] > 0
    /\ \E k \in DOMAIN canonical_to_members :
           \E m \in canonical_to_members[k] : Count(m, "X") = 1

Other(m) == IF m = "X" THEN "O" ELSE "X"

\* the mark of the first completed line of b, in the order rows, columns, diagonals
FirstLineMark(b) ==
    LET done == {k \in DOMAIN lines : \A i \in Range(lines[k]) : b[i] = b[lines[k][1]] /\ b[i] # " "}
        first == CHOOSE k \in done : \A j \in done : k <= j
    IN  b[lines[first][1]]

\* C4 as stated: for every 9-cell board and every one of the 8 lines, if the three
\* cells of the line hold the same non-empty mark m, winner(board) returns m; if
\* no line holds three identical non-empty marks, it returns None.
C4_WinnerOfEveryLine ==
    call = "winner" =>
        /\ \A m \in {"X", "O"} : HasLine(board, m) => ret = m
        /\ ~HasLine(board, "X") /\ ~HasLine(board, "O") => ret = None

\* C4, amended: for every 9-cell board, if some line holds three marks m and no
\* line holds three of the other mark, winner(board) returns m; if lines of both
\* marks are completed, it returns the mark of the first completed line in the
\* order rows, columns, diagonals; if no line is completed, it returns None.
C4_WinnerOfFirstLine ==
    call = "winner" =>
        /\ \A m \in {"X", "O"} :
               HasLine(board, m) /\ ~HasLine(board, Other(m)) => ret = m
        /\ HasLine(board, "X") /\ HasLine(board, "O") => ret = FirstLineMark(board)
        /\ ~HasLine(board, "X") /\ ~HasLine(board, "O") => ret = None

C4_Witness ==
    /\ call = "winner"
    /\ HasLine(board, "X")
    /\ HasLine(board, "O")
    /\ board[3] = "X" /\ board[5] = " "
    /\ ret = "O"

\* C5: for every 9-cell board b, all_symmetries(b) contains b and has between 1
\* and 8 distinct boards; the orbit of canonical(b) is the same set of boards as
\* the orbit of b; and canonical(canonical(b)) = canonical(b).
C5_OrbitAndCanonical ==
    /\ call = "all_symmetries" =>
           /\ board \in Range(ret)
           /\ Len(ret) \in 1..8
           /\ Cardinality(Range(ret)) = Len(ret)
    /\ call = "canonical" =>
           /\ Range(all_symmetries(ret)) = Range(all_symmetries(board))
           /\ canonical(ret) = ret

C5_Witness ==
    /\ call = "canonical"
    /\ ret # board
    /\ Len(all_symmetries(board)) = 8
    /\ Len(all_symmetries(ret)) = 8

\* the board with cell i emptied
Without(b, i) == [b EXCEPT ![i] = " "]

\* one iteration of the worklist loop is being taken
LoopStep == pc = "loop" /\ pc' = "loop" /\ stack # << >>

\* the entries the iteration pushed
NewEntries == SubSeq(stack', Len(stack), Len(stack'))

\* C8: during reachable_positions() successors are generated only from a popped
\* board that has no winner and an empty cell, each by putting the mover's mark
\* on one empty cell; a terminal board is in visited and is popped without being
\* expanded. Consequently every board of the returned set but the empty one is
\* a non-terminal board of the set with one mark added, and no board of the set
\* holds a completed line of X and a completed line of O.
C8_OnlyNonTerminalExpanded ==
    /\ [][LoopStep =>
            /\ Top[1] \in visited
            /\ (visited' # visited \/ Len(stack') >= Len(stack)) =>
                   /\ ~GameOver(Top[1])
                   /\ \A nb \in (visited' \ visited) \cup {NewEntries[k][1] : k \in DOMAIN NewEntries} :
                          \E i \in Cells : Top[1][i] = " " /\ nb = [Top[1] EXCEPT ![i] = Top[2]]
            /\ GameOver(Top[1]) =>
                   /\ visited' = visited
                   /\ stack' = SubSeq(stack, 1, Len(stack) - 1)
         ]_vars
    /\ [](Returned =>
            /\ \A b \in visited \ {start} :
                   \E i \in Cells :
                       /\ b[i] # " "
                       /\ Without(b, i) \in visited
                       /\ ~GameOver(Without(b, i))
            /\ \A b \in visited : ~(HasLine(b, "X") /\ HasLine(b, "O")))

C8_Witness ==
    /\ pc = "loop"
    /\ stack # << >>
    /\ GameOver(Top[1])
    /\ HasLine(Top[1], "X")
    /\ Cardinality(visited) > 100

\* what is left to do: two for every board not yet visited, one for every entry
NBoards == Cardinality(Boards)

Measure == 2 * (NBoards - Cardinality(visited)) + Len(stack)

Lead(b) == Count(b, "X") - Count(b, "O")

\* the turn the filter of build_menace_boxes derives from the cell counts
TurnOf(b) == IF Count(b, "X") = Count(b, "O") THEN "X" ELSE "O"

\* C11: in every state of the reachable_positions() traversal each (board, player)
\* entry of the stack has player 'X' exactly when count(X) = count(O) and player
\* 'O' exactly when count(X) = count(O) + 1, and every board of visited has
\* count(X) - count(O) in {0, 1}: the turn carried on the stack is the turn the
\* decision-position filter derives from the cell counts.
C11_StackTurnAgreesWithCounts ==
    /\ \A k \in DOMAIN stack :
           /\ stack[k][2] \in {"X", "O"}
           /\ stack[k][2] = "X" <=> Count(stack[k][1], "X") = Count(stack[k][1], "O")
           /\ stack[k][2] = "O" <=> Count(stack[k][1], "X") = Count(stack[k][1], "O") + 1
           /\ stack[k][2] = TurnOf(stack[k][1])
           /\ stack[k][1] \in visited
    /\ \A b \in visited : Lead(b) \in {0, 1}

C11_Witness ==
    /\ pc = "loop"
    /\ Len(stack) > 4
    /\ \E k \in DOMAIN stack : stack[k][2] = "X" /\ Count(stack[k][1], "X") = 2
    /\ \E k \in DOMAIN stack : stack[k][2] = "O" /\ Count(stack[k][1], "X") = 3
    /\ Cardinality(visited) > 500

\* the depths at which decision positions exist
DecisionDepths == 0..(MaxDepth - 1)

\* the places (d, i) at which a key stands in the buckets
PlacesOf(buckets, k) ==
    {di \in UNION {{<<d, i>> : i \in DOMAIN buckets[d]} : d \in DOMAIN buckets} :
        buckets[di[1]][di[2]] = k}

\* C12: every decision position returned by build_menace_boxes() has an X count
\* between 0 and 3 (equal counts of X and O and more than one empty cell leave
\* no room for four X), so no position and no class is at depth 4: the depth-4
\* row of per_depth_stats and the depth-4 (move 9) bucket of the label listing
\* are empty, and the buckets of the depths 0..3 together hold every canonical
\* key exactly once.
C12_NothingAtDepthFour ==
    /\ HasBoxes =>
           /\ \A p \in positions : Count(p, "X") \in DecisionDepths
           /\ \A ms \in MemberSets : \A p \in ms : Count(p, "X") \in DecisionDepths
    /\ pc = "per_depth_stats" =>
           /\ pos_by_depth[MaxDepth] = 0
           /\ canon_by_depth[MaxDepth] = 0
    /\ pc = "labels" =>
           /\ DOMAIN depth_buckets = Depths
           /\ depth_buckets[MaxDepth] = << >>
           /\ \A d \in DecisionDepths :
                  Range(depth_buckets[d]) \subseteq DOMAIN canonical_to_members
           /\ \A k \in DOMAIN canonical_to_members :
                  /\ Cardinality(PlacesOf(depth_buckets, k)) = 1
                  /\ \A di \in PlacesOf(depth_buckets, k) : di[1] \in DecisionDepths

C12_Witness ==
    /\ pc = "labels"
    /\ depth_buckets[MaxDepth] = << >>
    /\ \A d \in DecisionDepths : depth_buckets[d] # << >>
    /\ Len(depth_buckets[3]) > 100

====
